---------------------------- MODULE Spec2Model ----------------------------
(*
  Model of snapcraft's `upload` command (snapcraft/commands/core22/upload.py,
  StoreUploadCommand.run): component-set validation, the sequence of
  upload_file calls, and the final notify_upload.

  One behaviour of Spec is one run of the command.  SpecRelease is the same
  run with the --release argument drawn from the strings over a small
  alphabet and few components.

  SpecParse applies the --component option parser (ComponentOption.__call__)
  to every short string.  SpecLint is one `snapcraft lint` invocation
  (snapcraft/commands/lint.py) together with the invocation it starts inside
  the instance.  SpecGit is the life of one GitRepo object
  (snapcraft/remote/git.py).  Each specification holds the variables of the
  others at their initial values.  Init draws the run's
  inputs (the parsed arguments, the snap's metadata and the file system);
  the actions are the consecutive parts of run(), split at the calls into the
  store client so that "before the first upload" is a state.
*)
EXTENDS Integers, Sequences, FiniteSets, TLC

(* ------------------------------ bounds ------------------------------- *)
NumNames == 3        \* distinct component names in play
MaxProvided == 2     \* most --component options on one command line
MaxChannelsLen == 5  \* longest --release argument, in characters
MaxValueLen == 4     \* longest --component value, in characters
MaxLintDepth == 3    \* most lint invocations nested inside each other

NamePool == <<"comp-a", "comp-b", "comp-c", "comp-d", "comp-e">>
Names == {NamePool[i] : i \in 1..NumNames}
FileNames == {"a.comp", "b.comp"}

\* the directory the command is run from and the directory of the snap file;
\* a component file name may exist in either
Dirs == {"cwd", "dist"}
SnapDir == "dist"

(* ------------------------------ helpers ------------------------------ *)
Range(s) == {s[i] : i \in 1..Len(s)}

SeqsUpTo(S, n) == UNION {[1..k -> S] : k \in 0..n}

DistinctSeqs(S) == {s \in SeqsUpTo(S, Cardinality(S)) :
                      \A i, j \in 1..Len(s) : i # j => s[i] # s[j]}

\* a path is a directory and a file name inside it
Path(d, f) == [dir |-> d, file |-> f]

\* pathlib: snap_file.parent / filename
Resolve(snap, filename) == Path(snap.dir, filename)

ComponentOption == [name : Names, filename : FileNames]

NoError == [kind |-> "none", arg |-> ""]
Error(k, a) == [kind |-> k, arg |-> a]

(* ------------------------------- state ------------------------------- *)
VARIABLES
  snap_file,             \* parsed_args.snap_file, a path
  snapIsFile,            \* snap_file.exists() and snap_file.is_file()
  snap_components,       \* keys of snap_yaml["components"], in order; <<>> if absent
  components,            \* parsed_args.component, in command-line order
  fs,                    \* component paths that exist on disk
  pc,                    \* position inside run()
  err,                   \* the exception that ended the run, if any
  verifyCalls,           \* number of client.verify_upload calls
  uploadCalls,           \* paths passed to store_client.upload_file, in order
  returned,              \* handles returned by upload_file, in order
  upload_id,             \* handle of the main upload (0: not yet)
  component_upload_ids,  \* dict name -> handle
  idx,                   \* position of the component loop (line 159)
  notifyCalls,           \* arguments of each client.notify_upload call
  messages,              \* emit.message calls
  channels_arg,          \* parsed_args.channels: [given, text]
  revision,              \* what client.notify_upload returned ("": not yet)
  \* --component option parser
  opt_value,             \* the string argparse hands to ComponentOption()
  opt_result,            \* what __call__ returned or raised
  \* lint command
  frames,                \* the lint invocations, outermost first
  active,                \* index of the invocation that is running (0: none)
  instances,             \* number of instances launched
  instance_files,        \* absolute paths of the files inside the instance
  exec_log,              \* argv of the commands executed inside the instance
  \* GitRepo
  path_kind,             \* what the path given to GitRepo() is on disk
  repo_here,             \* the path itself is a git repository
  repo_before,           \* repo_here before GitRepo() was called
  parent_repo,           \* a parent directory of the path is a git repository
  gobj,                  \* the GitRepo object: "none", "constructed", "failed"
  inits,                 \* number of pygit2.init_repository calls
  work,                  \* files of the working tree
  index,                 \* files of the index
  head,                  \* [born, tree]: the commit HEAD points to
  glast                  \* the last GitRepo call and its outcome

uploadVars == <<snap_file, snapIsFile, snap_components, components, fs, pc, err,
          verifyCalls, uploadCalls, returned, upload_id,
          component_upload_ids, idx, notifyCalls, messages, channels_arg,
          revision>>

parseVars == <<opt_value, opt_result>>

lintVars == <<frames, active, instances, instance_files, exec_log>>

gitVars == <<path_kind, repo_here, repo_before, parent_repo, gobj, inits,
             work, index, head, glast>>

vars == <<uploadVars, parseVars, lintVars, gitVars>>

\* what the upload command leaves alone
others == <<parseVars, lintVars, gitVars>>

inputs == <<snap_file, snapIsFile, snap_components, components, fs,
            channels_arg>>

(* ------------------------- component validation ---------------------- *)
None == [isNone |-> TRUE, keys |-> <<>>]

\* upload.py _get_components: None when the snap has no (or empty) components
_get_components(comps) ==
  IF comps = <<>> THEN None ELSE [isNone |-> FALSE, keys |-> comps]

ProvidedNames(P) == {P[i].name : i \in 1..Len(P)}

\* mutation: the loop of lines 136-140 leaves after its first iteration
FirstMissing_FirstOnly(keys, P, i) ==
  IF keys # <<>> /\ keys[1] \notin ProvidedNames(P)
  THEN Error("Missing", keys[1])
  ELSE NoError

\* lines 136-140: first declared component, in declaration order, not provided
RECURSIVE FirstMissing(_, _, _)
FirstMissing(keys, P, i) ==
  IF i > Len(keys) THEN NoError
  ELSE IF keys[i] \notin ProvidedNames(P) THEN Error("Missing", keys[i])
  ELSE FirstMissing(keys, P, i + 1)

\* mutation: the loop of lines 142-150 without the name check of line 143
RECURSIVE CheckProvided_NoNameCheck(_, _, _, _, _)
CheckProvided_NoNameCheck(keys, P, snap, files, i) ==
  IF i > Len(P) THEN NoError
  ELSE IF Resolve(snap, P[i].filename) \notin files
       THEN Error("FileNotExist", P[i].filename)
  ELSE CheckProvided_NoNameCheck(keys, P, snap, files, i + 1)

\* lines 142-150: per provided component, name check then file check
RECURSIVE CheckProvided(_, _, _, _, _)
CheckProvided(keys, P, snap, files, i) ==
  IF i > Len(P) THEN NoError
  ELSE IF P[i].name \notin Range(keys) THEN Error("Unknown", P[i].name)
  ELSE IF Resolve(snap, P[i].filename) \notin files
       THEN Error("FileNotExist", P[i].filename)
  ELSE CheckProvided(keys, P, snap, files, i + 1)

\* mutation: the loop over the provided components runs before the loop
\* over the declared ones
ValidateComponents_ProvidedFirst(comps, P, snap, files) ==
  LET expected_components == _get_components(comps) IN
  IF expected_components.isNone THEN NoError
  ELSE IF P = <<>> THEN Error("NoComponentFiles", "")
  ELSE LET u == CheckProvided(expected_components.keys, P, snap, files, 1) IN
       IF u # NoError THEN u
       ELSE FirstMissing(expected_components.keys, P, 1)

\* lines 125-150
ValidateComponents(comps, P, snap, files) ==
  LET expected_components == _get_components(comps) IN
  IF expected_components.isNone THEN NoError
  ELSE IF P = <<>> THEN Error("NoComponentFiles", "")
  ELSE LET m == FirstMissing(expected_components.keys, P, 1) IN
       IF m # NoError THEN m
       ELSE CheckProvided(expected_components.keys, P, snap, files, 1)

(* ------------------------- the release message ---------------------- *)
\* A string is a sequence of characters; the fixed phrases of the message
\* are written as single characters.
ChannelChars == {"e", "s", ","}

NoChannels == [given |-> FALSE, text |-> <<>>]
ChannelsArg == {NoChannels} \cup
               [given : {TRUE}, text : SeqsUpTo(ChannelChars, MaxChannelsLen)]

Revisions == {"1", "2"}
snap_name == "app"

\* mutation: str.split that drops empty items
RECURSIVE SplitComma_DropEmpty(_)
SplitComma_DropEmpty(str) ==
  IF \A i \in 1..Len(str) : str[i] # "," THEN
    IF str = <<>> THEN <<>> ELSE <<str>>
  ELSE LET c == CHOOSE i \in 1..Len(str) :
                  str[i] = "," /\ \A j \in 1..(i - 1) : str[j] # ","
           first == SubSeq(str, 1, c - 1)
           rest == SplitComma_DropEmpty(SubSeq(str, c + 1, Len(str))) IN
       IF first = <<>> THEN rest ELSE <<first>> \o rest

\* str.split(","): the items between the commas, empty ones included
RECURSIVE SplitComma(_)
SplitComma(str) ==
  IF \A i \in 1..Len(str) : str[i] # "," THEN <<str>>
  ELSE LET c == CHOOSE i \in 1..Len(str) :
                  str[i] = "," /\ \A j \in 1..(i - 1) : str[j] # "," IN
       <<SubSeq(str, 1, c - 1)>> \o SplitComma(SubSeq(str, c + 1, Len(str)))

\* lines 113-115: channels is None (here <<>>) unless --release is non-empty
Channels(arg) ==
  IF arg.given /\ arg.text # <<>> THEN SplitComma(arg.text) ELSE <<>>

\* utils.humanize_list(items, conjunction): the last two items joined by the
\* conjunction, the earlier ones separated by commas
RECURSIVE humanize_list(_, _)
humanize_list(items, conjunction) ==
  IF items = <<>> THEN <<>>
  ELSE IF Len(items) = 1 THEN items[1]
  ELSE IF Len(items) = 2
       THEN items[1] \o <<" ", conjunction, " ">> \o items[2]
  ELSE items[1] \o <<", ">> \o humanize_list(Tail(items), conjunction)

\* mutation: the suffix is added whether or not channels were given
Message_AlwaysReleased(rev, name, channels) ==
  <<"Revision ", rev, " created for ", name>> \o
  <<" and released to ">> \o humanize_list(channels, "and")

\* lines 175-177
Message(rev, name, channels) ==
  <<"Revision ", rev, " created for ", name>> \o
  (IF channels # <<>>
   THEN <<" and released to ">> \o humanize_list(channels, "and")
   ELSE <<>>)

(* ------------------------------- Init -------------------------------- *)
\* no --component value is being parsed
ParseIdle ==
  /\ opt_value = <<>>
  /\ opt_result = [status |-> "idle", name |-> <<>>, filename |-> <<>>]

\* no lint command is running
LintIdle ==
  /\ frames = <<>>
  /\ active = 0
  /\ instances = 0
  /\ instance_files = {}
  /\ exec_log = <<>>

\* no GitRepo is in use
GitIdle ==
  /\ path_kind = "missing"
  /\ repo_here = FALSE
  /\ repo_before = FALSE
  /\ parent_repo = FALSE
  /\ gobj = "none"
  /\ inits = 0
  /\ work = {}
  /\ index = {}
  /\ head = [born |-> FALSE, tree |-> {}]
  /\ glast = [op |-> "none", exc |-> "none", msg |-> "", value |-> FALSE,
              lookup |-> "none", push |-> "none", pushed |-> FALSE]

\* the run has not started
InitRun ==
  /\ pc = "start"
  /\ err = NoError
  /\ verifyCalls = 0
  /\ uploadCalls = <<>>
  /\ returned = <<>>
  /\ upload_id = 0
  /\ component_upload_ids = <<>>
  /\ idx = 1
  /\ notifyCalls = <<>>
  /\ messages = <<>>
  /\ revision = ""

\* a run with one declared name and one file at most, and any --release
InitRelease ==
  /\ snap_file = Path(SnapDir, "app.snap")
  /\ snapIsFile \in BOOLEAN
  /\ snap_components \in {<<>>, <<NamePool[1]>>}
  /\ components \in SeqsUpTo({[name |-> NamePool[1], filename |-> "a.comp"]}, 1)
  /\ fs \in SUBSET {Path(SnapDir, "a.comp")}
  /\ channels_arg \in ChannelsArg
  /\ InitRun
  /\ ParseIdle /\ LintIdle /\ GitIdle

Init ==
  /\ snap_file = Path(SnapDir, "app.snap")
  /\ snapIsFile \in BOOLEAN
  /\ snap_components \in DistinctSeqs(Names)
  /\ components \in SeqsUpTo(ComponentOption, MaxProvided)
  /\ fs \in SUBSET {Path(d, f) : d \in Dirs, f \in FileNames}
  /\ channels_arg = NoChannels
  /\ InitRun
  /\ ParseIdle /\ LintIdle /\ GitIdle

(* ------------------------------ actions ------------------------------ *)
\* lines 109-111: the snap file is not a valid file
RejectSnapFile ==
  /\ pc = "start"
  /\ ~snapIsFile
  /\ pc' = "error"
  /\ err' = Error("ArgumentParsingError", snap_file.file)
  /\ UNCHANGED <<others, inputs, revision, verifyCalls, uploadCalls, returned, upload_id,
                 component_upload_ids, idx, notifyCalls, messages>>

\* mutation: verify_upload (line 152) is called before the validation
ValidateFail_AfterVerify ==
  /\ pc = "start"
  /\ snapIsFile
  /\ LET e == ValidateComponents(snap_components, components, snap_file, fs) IN
       /\ e # NoError
       /\ err' = e
  /\ verifyCalls' = verifyCalls + 1
  /\ pc' = "error"
  /\ UNCHANGED <<others, inputs, revision, uploadCalls, returned, upload_id,
                 component_upload_ids, idx, notifyCalls, messages>>

\* lines 109-150: validation raises
ValidateFail ==
  /\ pc = "start"
  /\ snapIsFile
  /\ LET e == ValidateComponents(snap_components, components, snap_file, fs) IN
       /\ e # NoError
       /\ err' = e
  /\ pc' = "error"
  /\ UNCHANGED <<others, inputs, revision, verifyCalls, uploadCalls, returned, upload_id,
                 component_upload_ids, idx, notifyCalls, messages>>

\* lines 109-150: validation passes
ValidateOk ==
  /\ pc = "start"
  /\ snapIsFile
  /\ ValidateComponents(snap_components, components, snap_file, fs) = NoError
  /\ pc' = "verify"
  /\ UNCHANGED <<others, inputs, revision, err, verifyCalls, uploadCalls, returned, upload_id,
                 component_upload_ids, idx, notifyCalls, messages>>

\* line 152: client.verify_upload returns
VerifyUploadOk ==
  /\ pc = "verify"
  /\ verifyCalls' = verifyCalls + 1
  /\ pc' = "upload_main"
  /\ UNCHANGED <<others, inputs, revision, err, uploadCalls, returned, upload_id,
                 component_upload_ids, idx, notifyCalls, messages>>

\* line 152: client.verify_upload raises
VerifyUploadFail ==
  /\ pc = "verify"
  /\ verifyCalls' = verifyCalls + 1
  /\ pc' = "error"
  /\ err' = Error("VerifyError", "")
  /\ UNCHANGED <<others, inputs, revision, uploadCalls, returned, upload_id,
                 component_upload_ids, idx, notifyCalls, messages>>

\* a handle the store has not handed out in this run
FreshHandle == Len(returned) + 1

\* lines 154-156: the main snap file is uploaded
UploadMainOk ==
  /\ pc = "upload_main"
  /\ uploadCalls' = Append(uploadCalls, snap_file)
  /\ returned' = Append(returned, FreshHandle)
  /\ upload_id' = FreshHandle
  /\ component_upload_ids' = <<>>
  /\ idx' = 1
  /\ pc' = "upload_components"
  /\ UNCHANGED <<others, inputs, revision, err, verifyCalls, notifyCalls, messages>>

\* lines 154-156: upload_file raises for the main snap file
UploadMainFail ==
  /\ pc = "upload_main"
  /\ uploadCalls' = Append(uploadCalls, snap_file)
  /\ pc' = "error"
  /\ err' = Error("UploadError", snap_file.file)
  /\ UNCHANGED <<others, inputs, revision, verifyCalls, returned, upload_id,
                 component_upload_ids, idx, notifyCalls, messages>>

\* dict assignment d[k] = v
DictSet(d, k, v) == [x \in (DOMAIN d) \cup {k} |-> IF x = k THEN v ELSE d[x]]

\* mutation: the component loop walks the list from its end
UploadComponentOk_Reversed ==
  /\ pc = "upload_components"
  /\ idx <= Len(components)
  /\ LET component == components[Len(components) + 1 - idx]
         component_file == Resolve(snap_file, component.filename) IN
       /\ component_file \in fs
       /\ uploadCalls' = Append(uploadCalls, component_file)
       /\ returned' = Append(returned, FreshHandle)
       /\ component_upload_ids' =
            DictSet(component_upload_ids, component.name, FreshHandle)
  /\ idx' = idx + 1
  /\ UNCHANGED <<others, inputs, revision, pc, err, verifyCalls, upload_id, notifyCalls, messages>>

\* lines 159-164: one iteration of the component loop, upload_file returns.
\* A file that is not on disk cannot be read, so the call cannot return.
UploadComponentOk ==
  /\ pc = "upload_components"
  /\ idx <= Len(components)
  /\ LET component == components[idx]
         component_file == Resolve(snap_file, component.filename) IN
       /\ component_file \in fs
       /\ uploadCalls' = Append(uploadCalls, component_file)
       /\ returned' = Append(returned, FreshHandle)
       /\ component_upload_ids' =
            DictSet(component_upload_ids, component.name, FreshHandle)
  /\ idx' = idx + 1
  /\ UNCHANGED <<others, inputs, revision, pc, err, verifyCalls, upload_id, notifyCalls, messages>>

\* mutation: a failed component upload is recorded and the loop goes on
UploadComponentFail_Swallowed ==
  /\ pc = "upload_components"
  /\ idx <= Len(components)
  /\ LET component == components[idx]
         component_file == Resolve(snap_file, component.filename) IN
       /\ uploadCalls' = Append(uploadCalls, component_file)
       /\ err' = Error("UploadError", component.filename)
  /\ idx' = idx + 1
  /\ UNCHANGED <<others, inputs, revision, pc, verifyCalls, returned, upload_id,
                 component_upload_ids, notifyCalls, messages>>

\* lines 159-164: upload_file raises inside the component loop
UploadComponentFail ==
  /\ pc = "upload_components"
  /\ idx <= Len(components)
  /\ LET component == components[idx]
         component_file == Resolve(snap_file, component.filename) IN
       /\ uploadCalls' = Append(uploadCalls, component_file)
       /\ err' = Error("UploadError", component.filename)
  /\ pc' = "error"
  /\ UNCHANGED <<others, inputs, revision, verifyCalls, returned, upload_id,
                 component_upload_ids, idx, notifyCalls, messages>>

NotifyArgs == [upload_id |-> upload_id, components |-> component_upload_ids]

\* lines 166-173: client.notify_upload returns a revision
NotifyUploadOk ==
  /\ pc = "upload_components"
  /\ idx > Len(components)
  /\ notifyCalls' = Append(notifyCalls, NotifyArgs)
  /\ revision' \in Revisions
  /\ pc' = "emit"
  /\ UNCHANGED <<others, inputs, err, verifyCalls, uploadCalls, returned, upload_id,
                 component_upload_ids, idx, messages>>

\* lines 166-173: client.notify_upload raises
NotifyUploadFail ==
  /\ pc = "upload_components"
  /\ idx > Len(components)
  /\ notifyCalls' = Append(notifyCalls, NotifyArgs)
  /\ pc' = "error"
  /\ err' = Error("NotifyError", "")
  /\ UNCHANGED <<others, inputs, revision, verifyCalls, uploadCalls, returned, upload_id,
                 component_upload_ids, idx, messages>>

\* lines 175-178: the revision message
EmitMessage ==
  /\ pc = "emit"
  /\ messages' =
       Append(messages, Message(revision, snap_name, Channels(channels_arg)))
  /\ pc' = "done"
  /\ UNCHANGED <<others, inputs, revision, err, verifyCalls, uploadCalls, returned, upload_id,
                 component_upload_ids, idx, notifyCalls>>

Next ==
  \/ RejectSnapFile
  \/ ValidateFail
  \/ ValidateOk
  \/ VerifyUploadOk
  \/ VerifyUploadFail
  \/ UploadMainOk
  \/ UploadMainFail
  \/ UploadComponentOk
  \/ UploadComponentFail
  \/ NotifyUploadOk
  \/ NotifyUploadFail
  \/ EmitMessage

Spec == Init /\ [][Next]_vars

SpecRelease == InitRelease /\ [][Next]_vars

\* no upload is running
UploadIdle ==
  /\ snap_file = Path(SnapDir, "app.snap")
  /\ snapIsFile = FALSE
  /\ snap_components = <<>>
  /\ components = <<>>
  /\ fs = {}
  /\ channels_arg = NoChannels
  /\ InitRun

(* ===================== the --component option parser ================= *)
\* a --component value is a string over these characters
ValueChars == {"a", "b", "=", " "}

\* str.split(sep): the items between the separators, empty ones included
RECURSIVE Split(_, _)
Split(str, sep) ==
  IF \A i \in 1..Len(str) : str[i] # sep THEN <<str>>
  ELSE LET c == CHOOSE i \in 1..Len(str) :
                  str[i] = sep /\ \A j \in 1..(i - 1) : str[j] # sep IN
       <<SubSeq(str, 1, c - 1)>> \o Split(SubSeq(str, c + 1, Len(str)), sep)

\* str.strip(): without the leading and trailing blanks
RECURSIVE Strip(_)
Strip(str) ==
  IF str = <<>> THEN <<>>
  ELSE IF Head(str) = " " THEN Strip(Tail(str))
  ELSE IF str[Len(str)] = " " THEN Strip(SubSeq(str, 1, Len(str) - 1))
  ELSE str

\* line 53: the parts that are not empty
RECURSIVE NonEmpty(_)
NonEmpty(parts) ==
  IF parts = <<>> THEN <<>>
  ELSE IF Head(parts) = <<>> THEN NonEmpty(Tail(parts))
  ELSE <<Head(parts)>> \o NonEmpty(Tail(parts))

\* lines 52-53
Parts(value) ==
  LET raw == Split(value, "=") IN
  NonEmpty([i \in 1..Len(raw) |-> Strip(raw[i])])

\* lines 50-58: ComponentOption.__call__
ComponentOption__call__(value) ==
  LET parts == Parts(value) IN
  IF Len(parts) = 2
  THEN [status |-> "ok", name |-> parts[1], filename |-> parts[2]]
  ELSE [status |-> "ValueError", name |-> <<>>, filename |-> <<>>]

InitParse ==
  /\ opt_value \in SeqsUpTo(ValueChars, MaxValueLen)
  /\ opt_result = [status |-> "idle", name |-> <<>>, filename |-> <<>>]
  /\ UploadIdle /\ LintIdle /\ GitIdle

\* argparse calls the parser and it returns a ComponentOption
ParseAccept ==
  /\ opt_result.status = "idle"
  /\ ComponentOption__call__(opt_value).status = "ok"
  /\ opt_result' = ComponentOption__call__(opt_value)
  /\ UNCHANGED <<opt_value, uploadVars, lintVars, gitVars>>

\* argparse calls the parser and it raises ValueError
ParseReject ==
  /\ opt_result.status = "idle"
  /\ ComponentOption__call__(opt_value).status = "ValueError"
  /\ opt_result' = ComponentOption__call__(opt_value)
  /\ UNCHANGED <<opt_value, uploadVars, lintVars, gitVars>>

NextParse == ParseAccept \/ ParseReject

SpecParse == InitParse /\ [][NextParse]_vars

(* ============================ the lint command ======================= *)
\* a pathlib.Path: absolute or relative, and its parts
LPath(a, ps) == [abs |-> a, parts |-> ps]

\* the snap-file arguments a user may give: a bare file name, a relative
\* path with a directory, absolute paths
UserPaths == { LPath(FALSE, <<"app.snap">>),
               LPath(FALSE, <<"dist", "app.snap">>),
               LPath(TRUE, <<"home", "app.snap">>),
               LPath(TRUE, <<"root", "app.snap">>) }

\* values of SNAPCRAFT_BUILD_ENVIRONMENT
BuildEnvs == {"unset", "host", "lxd"}

\* linters.LinterStatus
LinterStatus == {"OK", "WARNINGS", "ERRORS", "FATAL"}

\* is_managed_mode() of a command executed inside a launched instance
InstanceManaged == TRUE

\* working directory of a command executed inside the instance
InstanceCwd == <<"root">>

\* str(path): the parts separated by "/", with a leading "/" if absolute
RECURSIVE JoinParts(_)
JoinParts(ps) ==
  IF ps = <<>> THEN <<>>
  ELSE IF Len(ps) = 1 THEN <<ps[1]>>
  ELSE <<ps[1], "/">> \o JoinParts(Tail(ps))

PathStr(path) == (IF path.abs THEN <<"/">> ELSE <<>>) \o JoinParts(path.parts)

\* Path(string), as the argument parser of the nested command builds it
ParsePath(str) ==
  LET items == NonEmpty(Split(str, "/")) IN
  LPath(str # <<>> /\ Head(str) = "/", [i \in 1..Len(items) |-> items[i][1]])

\* Path.name
PathName(path) == path.parts[Len(path.parts)]

\* line 159: Path("/root") / parsed_args.snap_file.name
PushDestination(path) == LPath(TRUE, <<"root", PathName(path)>>)

\* the file a path denotes for a command running inside the instance
InInstance(path) ==
  IF path.abs THEN path ELSE LPath(TRUE, InstanceCwd \o path.parts)

NoLintError == [kind |-> "none", code |-> "none"]
LintError(k, c) == [kind |-> k, code |-> c]

\* one invocation of LintCommand.run
Frame(managed, env, path, isfile) ==
  [managed |-> managed, env |-> env, snap_file |-> path, is_file |-> isfile,
   pc |-> "start", ranLinter |-> FALSE, ranProvider |-> FALSE,
   status |-> "none", err |-> NoLintError]

Cur == frames[active]

Running(at) == active > 0 /\ Cur.pc = at

SetCur(f) == frames' = [frames EXCEPT ![active] = f]

InitLint ==
  /\ frames \in {<<Frame(m, e, p, f)>> :
                   m \in BOOLEAN, e \in BuildEnvs, p \in UserPaths, f \in BOOLEAN}
  /\ active = 1
  /\ instances = 0
  /\ instance_files = {}
  /\ exec_log = <<>>
  /\ UploadIdle /\ ParseIdle /\ GitIdle

\* lines 84-87: the snap file is not a valid file
L_RejectSnapFile ==
  /\ Running("start")
  /\ ~Cur.is_file
  /\ SetCur([Cur EXCEPT !.pc = "failed",
                        !.err = LintError("ArgumentParsingError", "none")])
  /\ UNCHANGED <<active, instances, instance_files, exec_log,
                 uploadVars, parseVars, gitVars>>

\* lines 84-87: the snap file is a valid file
L_AcceptSnapFile ==
  /\ Running("start")
  /\ Cur.is_file
  /\ SetCur([Cur EXCEPT !.pc = "dispatch"])
  /\ UNCHANGED <<active, instances, instance_files, exec_log,
                 uploadVars, parseVars, gitVars>>

\* mutation: `or` in place of `and` in the condition of lines 89-92
RunsInProvider_Or(managed, env) == ~managed \/ env # "host"

\* mutation: the condition of lines 89-92 without is_managed_mode()
RunsInProvider_EnvOnly(managed, env) == env # "host"

\* lines 89-92: the condition of the dispatch
RunsInProvider(managed, env) == ~managed /\ env # "host"

\* line 93: self._run_in_provider(parsed_args)
L_DispatchProvider ==
  /\ Running("dispatch")
  /\ RunsInProvider(Cur.managed, Cur.env)
  /\ SetCur([Cur EXCEPT !.pc = "get_provider", !.ranProvider = TRUE])
  /\ UNCHANGED <<active, instances, instance_files, exec_log,
                 uploadVars, parseVars, gitVars>>

\* lines 94-96: self._run_linter(snap_file=snap_file)
L_DispatchLocal ==
  /\ Running("dispatch")
  /\ ~RunsInProvider(Cur.managed, Cur.env)
  /\ SetCur([Cur EXCEPT !.pc = "linter", !.ranLinter = TRUE])
  /\ UNCHANGED <<active, instances, instance_files, exec_log,
                 uploadVars, parseVars, gitVars>>

\* lines 102-120: unsquashing, installing or reading the snap fails before
\* the linters report
L_LinterSetupFail ==
  /\ Running("linter")
  /\ SetCur([Cur EXCEPT !.pc = "failed",
                        !.err = LintError("SnapcraftError", "none")])
  /\ UNCHANGED <<active, instances, instance_files, exec_log,
                 uploadVars, parseVars, gitVars>>

\* mutation: only a FATAL status raises
AfterReport_FatalOnly(f, status) ==
  IF status = "FATAL"
  THEN [f EXCEPT !.status = status, !.pc = "failed",
                 !.err = LintError("LinterError", status)]
  ELSE [f EXCEPT !.status = status, !.pc = "done"]

\* lines 122-126 and 98: the invocation after linters.report returned status
AfterReport(f, status) ==
  IF status \in {"ERRORS", "FATAL"}
  THEN [f EXCEPT !.status = status, !.pc = "failed",
                 !.err = LintError("LinterError", status)]
  ELSE [f EXCEPT !.status = status, !.pc = "done"]

\* lines 117-126: the linters run and report a status
L_LinterReport ==
  /\ Running("linter")
  /\ \E status \in LinterStatus : SetCur(AfterReport(Cur, status))
  /\ UNCHANGED <<active, instances, instance_files, exec_log,
                 uploadVars, parseVars, gitVars>>

\* line 133: providers.get_provider returns
L_GetProvider ==
  /\ Running("get_provider")
  /\ SetCur([Cur EXCEPT !.pc = "ensure"])
  /\ UNCHANGED <<active, instances, instance_files, exec_log,
                 uploadVars, parseVars, gitVars>>

\* line 134: providers.ensure_provider_is_available returns
L_EnsureAvailable ==
  /\ Running("ensure")
  /\ SetCur([Cur EXCEPT !.pc = "launch"])
  /\ UNCHANGED <<active, instances, instance_files, exec_log,
                 uploadVars, parseVars, gitVars>>

\* lines 149-155: provider.launched_environment yields an instance
L_Launch ==
  /\ Running("launch")
  /\ instances' = instances + 1
  /\ SetCur([Cur EXCEPT !.pc = "push"])
  /\ UNCHANGED <<active, instance_files, exec_log,
                 uploadVars, parseVars, gitVars>>

\* lines 157-160: instance.push_file returns
L_PushFile ==
  /\ Running("push")
  /\ instance_files' = instance_files \cup {PushDestination(Cur.snap_file)}
  /\ SetCur([Cur EXCEPT !.pc = "execute"])
  /\ UNCHANGED <<active, instances, exec_log, uploadVars, parseVars, gitVars>>

\* line 163
NestedCommand(f) == <<"snapcraft", "lint", PathStr(f.snap_file)>>

\* line 164: instance.execute_run starts `snapcraft lint` inside the instance
L_Execute ==
  /\ Running("execute")
  /\ Len(frames) < MaxLintDepth
  /\ LET cmd == NestedCommand(Cur)
         arg == ParsePath(cmd[3]) IN
       /\ exec_log' = Append(exec_log, cmd)
       /\ \E e \in BuildEnvs :
            frames' = Append([frames EXCEPT ![active].pc = "waiting"],
                             Frame(InstanceManaged, e, arg,
                                   InInstance(arg) \in instance_files))
  /\ active' = active + 1
  /\ UNCHANGED <<instances, instance_files, uploadVars, parseVars, gitVars>>

\* what fails at each step of _run_in_provider
ProviderErrorAt(at) ==
  CASE at = "get_provider" -> "ProviderLookupError"
    [] at = "ensure" -> "ProviderUnavailable"
    [] at = "launch" -> "LaunchError"
    [] at = "push" -> "PushError"
    [] at = "execute" -> "ExecuteError"

ProviderSteps == {"get_provider", "ensure", "launch", "push", "execute"}

ProviderErrors == {ProviderErrorAt(at) : at \in ProviderSteps}

\* mutation: a failing provider step falls back to the local linter
L_ProviderFail_Fallback ==
  /\ active > 0
  /\ Cur.pc \in ProviderSteps
  /\ SetCur([Cur EXCEPT !.pc = "linter", !.ranLinter = TRUE,
                        !.err = LintError(ProviderErrorAt(Cur.pc), "none")])
  /\ UNCHANGED <<active, instances, instance_files, exec_log,
                 uploadVars, parseVars, gitVars>>

\* lines 133-164: a step of _run_in_provider raises
L_ProviderFail ==
  /\ active > 0
  /\ Cur.pc \in ProviderSteps
  /\ SetCur([Cur EXCEPT !.pc = "failed",
                        !.err = LintError(ProviderErrorAt(Cur.pc), "none")])
  /\ UNCHANGED <<active, instances, instance_files, exec_log,
                 uploadVars, parseVars, gitVars>>

\* line 164, check=True: the nested command ended; a failure of it raises
L_Return ==
  /\ active > 1
  /\ Cur.pc \in {"done", "failed"}
  /\ frames' = [frames EXCEPT ![active - 1] =
                  IF Cur.pc = "failed"
                  THEN [@ EXCEPT !.pc = "failed",
                                 !.err = LintError("ExecuteError", "none")]
                  ELSE [@ EXCEPT !.pc = "done"]]
  /\ active' = active - 1
  /\ UNCHANGED <<instances, instance_files, exec_log,
                 uploadVars, parseVars, gitVars>>

NextLint ==
  \/ L_RejectSnapFile
  \/ L_AcceptSnapFile
  \/ L_DispatchProvider
  \/ L_DispatchLocal
  \/ L_LinterSetupFail
  \/ L_LinterReport
  \/ L_GetProvider
  \/ L_EnsureAvailable
  \/ L_Launch
  \/ L_PushFile
  \/ L_Execute
  \/ L_ProviderFail
  \/ L_Return

SpecLint == InitLint /\ [][NextLint]_vars

(* ================================ GitRepo ============================ *)
\* files that may be created in the working tree
GitFiles == {"foo", "bar"}

\* the outcome of a GitRepo call
GitResult(op, exc, msg) ==
  [op |-> op, exc |-> exc, msg |-> msg, value |-> FALSE,
   lookup |-> "none", push |-> "none", pushed |-> FALSE]

Unborn == [born |-> FALSE, tree |-> {}]

\* mutation: discover_repository without the ceiling directory, so that a
\* repository in a parent directory is found
is_repo_NoCeiling(here, parent) == here \/ parent

\* lines 29-46: discover_repository with the parent as ceiling looks at the
\* path alone
is_repo(here, parent) == here

InitGit ==
  /\ path_kind \in {"missing", "file", "dir"}
  /\ parent_repo \in BOOLEAN
  /\ repo_here \in (IF path_kind = "dir" THEN BOOLEAN ELSE {FALSE})
  /\ repo_before = repo_here
  /\ work \in (IF path_kind = "dir" THEN SUBSET GitFiles ELSE {{}})
  /\ index \in (IF repo_here THEN SUBSET work ELSE {{}})
  /\ head \in (IF repo_here
               THEN {Unborn} \cup [born : {TRUE}, tree : SUBSET index]
               ELSE {Unborn})
  /\ gobj = "none"
  /\ inits = 0
  /\ glast = GitResult("none", "none", "")
  /\ UploadIdle /\ ParseIdle /\ LintIdle

\* lines 62-68: the path is missing or is not a directory
G_ConstructNotDir ==
  /\ gobj = "none"
  /\ path_kind # "dir"
  /\ gobj' = "failed"
  /\ glast' = GitResult("__init__", "FileNotFoundError",
                        "Could not initialize a git repository")
  /\ UNCHANGED <<path_kind, repo_here, repo_before, parent_repo, inits, work,
                 index, head, uploadVars, parseVars, lintVars>>

\* lines 70, 39-46: discover_repository raises
G_ConstructCheckError ==
  /\ gobj = "none"
  /\ path_kind = "dir"
  /\ gobj' = "failed"
  /\ glast' = GitResult("__init__", "GitError",
                        "Could not check for git repository")
  /\ UNCHANGED <<path_kind, repo_here, repo_before, parent_repo, inits, work,
                 index, head, uploadVars, parseVars, lintVars>>

\* lines 70-71, 135-140: init_repository raises
G_ConstructInitError ==
  /\ gobj = "none"
  /\ path_kind = "dir"
  /\ ~is_repo(repo_here, parent_repo)
  /\ inits' = inits + 1
  /\ gobj' = "failed"
  /\ glast' = GitResult("__init__", "GitError",
                        "Could not initialize a git repository")
  /\ UNCHANGED <<path_kind, repo_here, repo_before, parent_repo, work,
                 index, head, uploadVars, parseVars, lintVars>>

\* lines 62-73: the constructor returns
G_ConstructOk ==
  /\ gobj = "none"
  /\ path_kind = "dir"
  /\ IF is_repo(repo_here, parent_repo)
     THEN UNCHANGED <<repo_here, inits, index, head>>
     ELSE /\ repo_here' = TRUE
          /\ inits' = inits + 1
          /\ index' = {}
          /\ head' = Unborn
  /\ gobj' = "constructed"
  /\ glast' = GitResult("__init__", "none", "")
  /\ UNCHANGED <<path_kind, repo_before, parent_repo, work,
                 uploadVars, parseVars, lintVars>>

\* a file is created in the working tree
G_Touch ==
  /\ path_kind = "dir"
  /\ \E f \in GitFiles \ work : work' = work \cup {f}
  /\ glast' = GitResult("touch", "none", "")
  /\ UNCHANGED <<path_kind, repo_here, repo_before, parent_repo, gobj, inits,
                 index, head, uploadVars, parseVars, lintVars>>

\* lines 80-82: index.add_all() and index.write()
G_AddAll ==
  /\ gobj = "constructed"
  /\ index' = work
  /\ glast' = GitResult("add_all", "none", "")
  /\ UNCHANGED <<path_kind, repo_here, repo_before, parent_repo, gobj, inits,
                 work, head, uploadVars, parseVars, lintVars>>

\* lines 83-86: pygit2 raises while adding
G_AddAllFail ==
  /\ gobj = "constructed"
  /\ glast' = GitResult("add_all", "GitError", "Could not add changes")
  /\ UNCHANGED <<path_kind, repo_here, repo_before, parent_repo, gobj, inits,
                 work, index, head, uploadVars, parseVars, lintVars>>

\* lines 95-108: the index is written as a tree and committed on HEAD
G_Commit ==
  /\ gobj = "constructed"
  /\ head' = [born |-> TRUE, tree |-> index]
  /\ glast' = GitResult("commit", "none", "")
  /\ UNCHANGED <<path_kind, repo_here, repo_before, parent_repo, gobj, inits,
                 work, index, uploadVars, parseVars, lintVars>>

\* lines 97-100, 109-113: write_tree or create_commit raises
G_CommitFail ==
  /\ gobj = "constructed"
  /\ \E m \in {"Could not create a tree", "Could not create a commit"} :
       glast' = GitResult("commit", "GitError", m)
  /\ UNCHANGED <<path_kind, repo_here, repo_before, parent_repo, gobj, inits,
                 work, index, head, uploadVars, parseVars, lintVars>>

\* Repository.status(): the files that differ, with what differs
Status(w, ix, hd) ==
  [f \in (w \ ix) \cup (ix \ hd.tree) |->
     IF f \in ix THEN "INDEX_NEW" ELSE "WT_NEW"]

\* mutation: only untracked files make the repository dirty
is_clean_UntrackedOnly(w, ix, hd) == w \ ix = {}

\* line 124: not bool(self._repo.status())
is_clean(w, ix, hd) == DOMAIN Status(w, ix, hd) = {}

\* lines 122-124: is_clean returns
G_IsClean ==
  /\ gobj = "constructed"
  /\ glast' = [GitResult("is_clean", "none", "") EXCEPT
                 !.value = is_clean(work, index, head)]
  /\ UNCHANGED <<path_kind, repo_here, repo_before, parent_repo, gobj, inits,
                 work, index, head, uploadVars, parseVars, lintVars>>

\* lines 125-128: status() raises
G_IsCleanFail ==
  /\ gobj = "constructed"
  /\ glast' = GitResult("is_clean", "GitError", "Could not check if clean")
  /\ UNCHANGED <<path_kind, repo_here, repo_before, parent_repo, gobj, inits,
                 work, index, head, uploadVars, parseVars, lintVars>>

Refspecs == {"HEAD", "bad-refspec"}
RemoteUrls == {"good-url", "bad-url"}

\* what lookup_reference_dwim may do for a refspec (line 152)
LookupOutcomes(refspec) ==
  IF refspec = "bad-refspec" THEN {"KeyError", "pygit2.GitError"}
  ELSE {"ok", "KeyError", "pygit2.GitError"}

\* what the push to a remote may do
PushOutcomes(url) ==
  IF url = "bad-url" THEN {"pygit2.GitError"} ELSE {"ok", "pygit2.GitError"}

\* mutation: the first except clause names pygit2.GitError only
push_url_KeyErrorEscapes(lookup, push) ==
  IF lookup = "pygit2.GitError"
  THEN [GitResult("push_url", "GitError", "Could not resolve reference")
          EXCEPT !.lookup = lookup]
  ELSE IF lookup = "KeyError"
  THEN [GitResult("push_url", "KeyError", "") EXCEPT !.lookup = lookup]
  ELSE IF push = "pygit2.GitError"
  THEN [GitResult("push_url", "GitError", "Could not push")
          EXCEPT !.lookup = lookup, !.push = push, !.pushed = TRUE]
  ELSE [GitResult("push_url", "none", "")
          EXCEPT !.lookup = lookup, !.push = push, !.pushed = TRUE]

\* lines 150-165: push_url, given what the lookup and the push do
push_url(lookup, push) ==
  IF lookup \in {"pygit2.GitError", "KeyError"}
  THEN [GitResult("push_url", "GitError", "Could not resolve reference")
          EXCEPT !.lookup = lookup]
  ELSE IF push = "pygit2.GitError"
  THEN [GitResult("push_url", "GitError", "Could not push")
          EXCEPT !.lookup = lookup, !.push = push, !.pushed = TRUE]
  ELSE [GitResult("push_url", "none", "")
          EXCEPT !.lookup = lookup, !.push = push, !.pushed = TRUE]

\* lines 142-165
G_PushUrl ==
  /\ gobj = "constructed"
  /\ \E refspec \in Refspecs, url \in RemoteUrls :
       \E lookup \in LookupOutcomes(refspec), push \in PushOutcomes(url) :
         glast' = push_url(lookup, push)
  /\ UNCHANGED <<path_kind, repo_here, repo_before, parent_repo, gobj, inits,
                 work, index, head, uploadVars, parseVars, lintVars>>

NextGit ==
  \/ G_ConstructNotDir
  \/ G_ConstructCheckError
  \/ G_ConstructInitError
  \/ G_ConstructOk
  \/ G_Touch
  \/ G_AddAll
  \/ G_AddAllFail
  \/ G_Commit
  \/ G_CommitFail
  \/ G_IsClean
  \/ G_IsCleanFail
  \/ G_PushUrl

SpecGit == InitGit /\ [][NextGit]_vars

(* --------------------------- claim vocabulary ------------------------ *)
IsPrefix(s, t) == Len(s) <= Len(t) /\ \A i \in 1..Len(s) : s[i] = t[i]

Declared == Range(snap_components)

AllFilesExist ==
  \A i \in 1..Len(components) :
    Resolve(snap_file, components[i].filename) \in fs

HasDuplicateNames ==
  \E i, j \in 1..Len(components) :
    i # j /\ components[i].name = components[j].name

\* errors raised by lines 129-146 (the component sets do not match)
ComponentSetErrors == {"NoComponentFiles", "Missing", "Unknown"}

\* errors raised before the store is contacted (lines 109-150)
InputErrors == ComponentSetErrors \cup {"FileNotExist", "ArgumentParsingError"}

\* the run got past line 150
ValidationPassed == pc # "start" /\ ~(pc = "error" /\ err.kind \in InputErrors)

\* the run was ended by one of the raises of lines 129-150
ValidationFailed ==
  pc = "error" /\ err.kind \in ComponentSetErrors \cup {"FileNotExist"}

\* what upload_file is expected to see: the snap, then the component files
ExpectedUploads ==
  <<snap_file>> \o
  [i \in 1..Len(components) |-> Resolve(snap_file, components[i].filename)]

(* ------------------------------- claims ------------------------------ *)

\* C1: with a non-empty declared set and every provided file on disk,
\* validation passes exactly when the provided names are the declared names,
\* and fails otherwise.
C1_ValidationIffSetsEqual ==
  (snapIsFile /\ pc # "start" /\ snap_components # <<>> /\ AllFilesExist) =>
    /\ ValidationPassed <=> (ProvidedNames(components) = Declared)
    /\ ValidationFailed <=> (ProvidedNames(components) # Declared)

C1_Witness ==
  /\ pc = "verify"
  /\ Len(snap_components) = 2
  /\ Len(components) = 2
  /\ AllFilesExist

\* C2: a snap that declares no components, given some --component option,
\* ends validation with an input error and uploads no component file.
C2_NoDeclaredRejectsComponents ==
  (snap_components = <<>> /\ components # <<>> /\ pc # "start") =>
    /\ pc = "error" /\ err.kind \in InputErrors
    /\ Len(uploadCalls) <= 1

\* C3: when some provided component's file is missing, the run fails before
\* the first upload_file call: nothing is ever passed to upload_file.
C3_MissingFileFailsBeforeUpload ==
  ~AllFilesExist => uploadCalls = <<>>

\* C4: a run ended by a component-set validation error has made no call to
\* verify_upload, upload_file or notify_upload.
C4_ValidationErrorNoCalls ==
  (pc = "error" /\ err.kind \in ComponentSetErrors) =>
    verifyCalls = 0 /\ uploadCalls = <<>> /\ notifyCalls = <<>>

C4_Witness ==
  /\ pc = "error"
  /\ err.kind = "Unknown"
  /\ Len(components) = 2

\* C5: two provided entries with the same component name make the run fail
\* instead of uploading.  Stated for a snap that declares components, the
\* case in which lines 129-150 validate the list.
C5_DuplicateNamesRejected ==
  (HasDuplicateNames /\ snap_components # <<>>) =>
    uploadCalls = <<>> /\ pc \notin {"emit", "done"}

\* C6: upload_file sees the main snap file first and then the component
\* files in command-line order, one call per provided entry: the calls made
\* so far are always a prefix of that sequence, and the whole of it once
\* notify_upload is reached.
C6_UploadOrder ==
  /\ IsPrefix(uploadCalls, ExpectedUploads)
  /\ notifyCalls # <<>> => uploadCalls = ExpectedUploads

C6_Witness ==
  /\ pc = "done"
  /\ Len(components) = 2
  /\ components[1].filename # components[2].filename
  /\ Len(uploadCalls) = 3

\* C7: when notify_upload is reached for a snap with declared components,
\* the keys of the components mapping it receives are exactly the declared
\* names.
C7_NotifyKeysEqualDeclared ==
  snap_components # <<>> =>
    \A n \in 1..Len(notifyCalls) :
      DOMAIN notifyCalls[n].components = Declared

C7_Witness ==
  /\ Len(notifyCalls) = 1
  /\ Len(snap_components) = 2
  /\ DOMAIN notifyCalls[1].components = Declared

\* number of places of a notify_upload call that carry handle h
Uses(call, h) ==
  (IF call.upload_id = h THEN 1 ELSE 0) +
  Cardinality({k \in DOMAIN call.components : call.components[k] = h})

\* C8: every handle upload_file returned is passed to notify_upload exactly
\* once, the main one as upload_id and the others as values of components.
\* Stated for a snap that declares components.
C8_HandlesPassedExactlyOnce ==
  snap_components # <<>> =>
    \A n \in 1..Len(notifyCalls) :
      /\ notifyCalls[n].upload_id = returned[1]
      /\ \A h \in Range(returned) : Uses(notifyCalls[n], h) = 1

\* C9: once an upload_file call has failed, the run has stopped: the failed
\* call is the last one, notify_upload is not called, no message is emitted.
C9_UploadFailureStops ==
  /\ [](err.kind = "UploadError" =>
          pc = "error" /\ notifyCalls = <<>> /\ messages = <<>>)
  /\ [][err.kind = "UploadError" =>
          uploadCalls' = uploadCalls /\ notifyCalls' = notifyCalls
          /\ messages' = messages]_vars

C9_Witness ==
  /\ err.kind = "UploadError"
  /\ Len(uploadCalls) = 2
  /\ Len(components) = 2

Offenders ==
  (ProvidedNames(components) \ Declared) \cup
  (Declared \ ProvidedNames(components))

\* C10 as stated: a name-mismatch error names every offending component.
C10_ErrorNamesEveryOffender ==
  (pc = "error" /\ err.kind \in {"Missing", "Unknown"}) =>
    Offenders \subseteq {err.arg}

\* C10 amended: a name-mismatch error names exactly one offending component:
\* the first declared name (in declaration order) that is not provided, or,
\* when every declared name is provided, the first provided name (in
\* command-line order) that is not declared.
C10_ErrorNamesFirstOffender ==
  /\ (pc = "error" /\ err.kind = "Missing") =>
       \E i \in 1..Len(snap_components) :
         /\ snap_components[i] = err.arg
         /\ err.arg \notin ProvidedNames(components)
         /\ \A j \in 1..(i - 1) :
              snap_components[j] \in ProvidedNames(components)
  /\ (pc = "error" /\ err.kind = "Unknown") =>
       /\ Declared \subseteq ProvidedNames(components)
       /\ \E i \in 1..Len(components) :
            /\ components[i].name = err.arg
            /\ err.arg \notin Declared
            /\ \A j \in 1..(i - 1) : components[j].name \in Declared

C10_Witness ==
  /\ pc = "error"
  /\ err.kind = "Missing"
  /\ Cardinality(Offenders) = 3
  /\ err.arg = snap_components[1]

(* ---------------------- claims: the release message ------------------ *)
Commas(t) == {i \in 1..Len(t) : t[i] = ","}

\* position of the k-th comma of t; 0 before the first, Len(t) + 1 after the last
CommaPos(t, k) ==
  IF k = 0 THEN 0
  ELSE IF k > Cardinality(Commas(t)) THEN Len(t) + 1
  ELSE CHOOSE i \in Commas(t) : Cardinality({j \in Commas(t) : j <= i}) = k

\* the channels in the order given in --release
GivenChannels(t) ==
  [k \in 1..(Cardinality(Commas(t)) + 1) |->
     SubSeq(t, CommaPos(t, k - 1) + 1, CommaPos(t, k) - 1)]

RECURSIVE Concat(_)
Concat(ss) == IF ss = <<>> THEN <<>> ELSE Head(ss) \o Concat(Tail(ss))

\* each channel followed by what separates it from the next one
JoinedChannels(t) ==
  LET cs == GivenChannels(t)
      n == Len(cs) IN
  Concat([k \in 1..n |->
            cs[k] \o (IF k = n THEN <<>>
                      ELSE IF k = n - 1 THEN <<" ", "and", " ">>
                      ELSE <<", ">>)])

\* C13: after a successful upload the one emitted message is
\* "Revision <rev> created for <name>", followed by " and released to
\* <channels>" exactly when --release was given and not empty, the channels
\* in the order given, the last two joined by "and", the earlier ones
\* separated by commas.
C13_ReleaseMessage ==
  pc = "done" =>
    messages =
      << <<"Revision ", revision, " created for ", snap_name>> \o
         (IF channels_arg.given /\ channels_arg.text # <<>>
          THEN <<" and released to ">> \o JoinedChannels(channels_arg.text)
          ELSE <<>>) >>

C13_Witness ==
  /\ pc = "done"
  /\ channels_arg.text = <<"s", ",", "e", ",", "s">>
  /\ messages[1] = <<"Revision ", revision, " created for ", snap_name,
                     " and released to ", "s", ", ", "e", " ", "and", " ", "s">>

(* ------------------- claims: the --component parser ------------------ *)
EqualsSigns(value) == {i \in 1..Len(value) : value[i] = "="}

\* the value has the form <name>=<filename>: one '=', with something other
\* than blanks on both sides
WellFormed(value) ==
  /\ Cardinality(EqualsSigns(value)) = 1
  /\ LET e == CHOOSE i \in EqualsSigns(value) : TRUE IN
       /\ Strip(SubSeq(value, 1, e - 1)) # <<>>
       /\ Strip(SubSeq(value, e + 1, Len(value))) # <<>>

\* C14: the parser accepts a value exactly when it is <name>=<filename> with
\* a single '=' between a non-empty name and a non-empty filename, returns
\* the stripped name and filename, and rejects every other value.
C14_ParserAcceptsExactlyNameEqualsFile ==
  opt_result.status # "idle" =>
    /\ (opt_result.status = "ok") <=> WellFormed(opt_value)
    /\ (opt_result.status = "ValueError") <=> ~WellFormed(opt_value)
    /\ opt_result.status = "ok" =>
         LET e == CHOOSE i \in EqualsSigns(opt_value) : TRUE IN
           /\ opt_result.name = Strip(SubSeq(opt_value, 1, e - 1))
           /\ opt_result.filename =
                Strip(SubSeq(opt_value, e + 1, Len(opt_value)))

(* ------------------------ claims: the lint command ------------------- *)
\* the invocation got past the dispatch of lines 89-96
Dispatched(f) == f.ranLinter \/ f.ranProvider

\* the invocation was stopped by the file check of lines 86-87
RejectedFile(f) == f.err.kind = "ArgumentParsingError"

\* the invocation is past lines 84-96
PastDispatch(f) == f.pc \notin {"start", "dispatch"} /\ ~RejectedFile(f)

\* C11: the dispatch depends only on (inside a managed environment, host
\* mode forced): the linter runs locally exactly when the invocation is
\* managed or SNAPCRAFT_BUILD_ENVIRONMENT is "host", otherwise it runs in a
\* provisioned instance, and an invocation takes exactly one of the two.
C11_DispatchTable ==
  \A i \in 1..Len(frames) :
    LET f == frames[i] IN
      /\ ~(f.ranLinter /\ f.ranProvider)
      /\ PastDispatch(f) =>
           /\ f.ranLinter <=> (f.managed \/ f.env = "host")
           /\ f.ranProvider <=> ~(f.managed \/ f.env = "host")

C11_Witness ==
  /\ Len(frames) = 1
  /\ ~frames[1].managed
  /\ frames[1].env = "host"
  /\ frames[1].ranLinter
  /\ frames[1].pc = "done"

\* C12: an invocation that chose the provisioned environment never runs the
\* local linter itself, and a failure of provider lookup, availability
\* check, launch, push or remote execution ends it in error.
C12_NoFallbackToLocal ==
  \A i \in 1..Len(frames) :
    LET f == frames[i] IN
      /\ f.ranProvider => ~f.ranLinter
      /\ f.err.kind \in ProviderErrors =>
           f.pc = "failed" /\ f.ranProvider /\ ~f.ranLinter

C12_Witness ==
  /\ Len(frames) = 1
  /\ frames[1].err.kind = "PushError"
  /\ frames[1].pc = "failed"
  /\ instances = 1

LinterFindings == {"ERRORS", "FATAL"}

\* C15: an invocation whose linters reported a status ends with a
\* LinterError carrying that status exactly when the status is ERRORS or
\* FATAL, and completes without error for every other status; an invalid
\* snap file is an ArgumentParsingError raised before dispatch and linting.
C15_LinterExitCodes ==
  \A i \in 1..Len(frames) :
    LET f == frames[i] IN
      /\ f.status # "none" =>
           /\ (f.err = LintError("LinterError", f.status))
                <=> (f.status \in LinterFindings)
           /\ f.status \notin LinterFindings =>
                f.pc = "done" /\ f.err = NoLintError
      /\ f.err.kind = "LinterError" =>
           f.status \in LinterFindings /\ f.err.code = f.status
      /\ RejectedFile(f) =>
           ~Dispatched(f) /\ f.status = "none" /\ f.pc = "failed"

C15_Witness ==
  /\ Len(frames) = 1
  /\ frames[1].status = "ERRORS"
  /\ frames[1].err = LintError("LinterError", "ERRORS")
  /\ frames[1].pc = "failed"

\* C19: a lint invocation launches at most one instance and starts at most
\* one nested lint command; the nested invocation never takes the provider
\* branch, and when it dispatches it runs the linter locally.
C19_RecursionDepthOne ==
  /\ instances <= 1
  /\ Len(exec_log) <= 1
  /\ Len(frames) <= 2
  /\ \A i \in 2..Len(frames) :
       /\ ~frames[i].ranProvider
       /\ PastDispatch(frames[i]) => frames[i].ranLinter

C19_Witness ==
  /\ Len(frames) = 2
  /\ frames[2].ranLinter
  /\ frames[2].env = "unset"
  /\ frames[2].pc = "done"
  /\ frames[1].pc = "done"
  /\ instances = 1

\* C20: the snap file is pushed into the instance before the nested command
\* is executed, and the snap-file argument of the nested command denotes,
\* inside the instance, the location the file was pushed to.
C20_NestedArgumentIsPushedFile ==
  /\ exec_log # <<>> => instance_files # {}
  /\ \A i \in 2..Len(frames) :
       /\ InInstance(frames[i].snap_file) =
            PushDestination(frames[i - 1].snap_file)
       /\ InInstance(frames[i].snap_file) \in instance_files

(* ---------------------------- claims: GitRepo ------------------------ *)
\* C16: GitRepo() on a path that is missing or not a directory raises
\* FileNotFoundError and initializes nothing; on a directory it initializes
\* a repository exactly when the directory itself was not one (a repository
\* in a parent directory does not count), and afterwards the directory is a
\* repository.
C16_ConstructorInitializesOnce ==
  /\ inits <= 1
  /\ (gobj # "none" /\ path_kind # "dir") =>
       /\ gobj = "failed"
       /\ glast.exc = "FileNotFoundError"
       /\ inits = 0
       /\ ~repo_here
  /\ repo_before => inits = 0
  /\ gobj = "constructed" =>
       /\ path_kind = "dir"
       /\ repo_here
       /\ inits = 1 <=> ~repo_before

C16_Witness ==
  /\ gobj = "constructed"
  /\ parent_repo
  /\ ~repo_before
  /\ repo_here
  /\ inits = 1

StatusEmpty == work = index /\ index = head.tree

\* C17: is_clean returns True exactly when the status is empty (nothing
\* untracked, nothing staged): True after initializing an empty directory,
\* False with an untracked file, still False once add_all has staged it; and
\* an add_all with nothing to add leaves the status empty.
C17_IsCleanIffStatusEmpty ==
  /\ [](glast.op = "is_clean" /\ glast.exc = "none" =>
          /\ glast.value <=> StatusEmpty
          /\ (work = {} /\ inits = 1) => glast.value
          /\ work # index => ~glast.value
          /\ index # head.tree => ~glast.value)
  /\ [][(glast'.op = "add_all" /\ glast'.exc = "none") =>
          /\ index' = work
          /\ StatusEmpty => StatusEmpty']_vars

C17_Witness ==
  /\ glast.op = "is_clean"
  /\ glast.exc = "none"
  /\ ~glast.value
  /\ work = {"foo"}
  /\ index = {"foo"}
  /\ ~head.born

\* C18: push_url resolves the refspec first: when the reference is unknown
\* or the lookup fails it raises GitError "Could not resolve reference" and
\* attempts no push; when the push fails it raises GitError "Could not
\* push"; neither a pygit2 error nor a KeyError leaves push_url.
C18_PushUrlErrors ==
  glast.op = "push_url" =>
    /\ glast.exc \in {"none", "GitError"}
    /\ glast.lookup # "ok" =>
         /\ glast.exc = "GitError"
         /\ glast.msg = "Could not resolve reference"
         /\ ~glast.pushed
    /\ (glast.lookup = "ok" /\ glast.push # "ok") =>
         /\ glast.exc = "GitError"
         /\ glast.msg = "Could not push"
         /\ glast.pushed
    /\ glast.exc = "none" => glast.lookup = "ok" /\ glast.push = "ok"

C18_Witness ==
  /\ glast.op = "push_url"
  /\ glast.lookup = "KeyError"
  /\ glast.exc = "GitError"
  /\ glast.msg = "Could not resolve reference"
  /\ ~glast.pushed

=============================================================================
